---- MODULE Spec2Model ----
(***************************************************************************)
(* Multi-client chat server (src/server.c): the client registry, the       *)
(* registry mutex, the per-connection handler threads, the accept loop and *)
(* the signal-driven shutdown.                                             *)
(*                                                                         *)
(* Threads are numbered: 0 is main (the accept loop), c >= 1 is the        *)
(* handler thread created for the c-th accepted connection.  A signal      *)
(* handler runs on one of these threads and suspends it.  Slots are        *)
(* numbered 0..MaxClients-1 as in the C array.                             *)
(***************************************************************************)
EXTENDS Integers, Sequences, FiniteSets, TLC

\* ---------------------------------------------------------------- bounds
\* Number of registry slots of the model (the program has MAX_CLIENTS).
MaxClients == 2
\* Number of connections the accept loop accepts in one run.
MaxConns == 3
\* Number of lines all peers together send in one run.
MaxLines == 2
\* The same two bounds for the runs in which termination signals arrive.
SigConns == 2
SigLines == 1
\* Number of termination signals delivered in one run.
MaxSignals == 2
\* The bounds of the runs with one signal and one more connection.
RaceConns == 3
RaceSignals == 1

\* ------------------------------------------------------ program constants
MAX_CLIENTS == 128
NAME_LEN == 32
OUT_SIZE == 4096
LIST_MARGIN == 64
\* SIGINT and SIGTERM share sig_handler; a signal is blocked on the thread
\* that is handling it, so one thread hosts at most this many invocations.
NumSigNos == 2
\* First descriptor number the transport hands out for a connection
\* (0..2 standard streams, then the log file and the listening socket).
FdBase == 5

Slots == 0..(MaxClients - 1)
Conns == 1..MaxConns
FdNums == FdBase..(FdBase + MaxClients)
MainThr == 0
NoOwner == -1

Min(a, b) == IF a < b THEN a ELSE b

\* ------------------------------------------------------------ wire texts
ServerFullMsg == "Server full.\n"
UsageMsg == "Usage: /name <newname>\n"
NotFoundMsg == "User not found.\n"
UnknownMsg == "Unknown command.\n"
PmSentMsg == "[PM sent]\n"
ShutdownMsg == "[Server] Shutting down.\n"
ListHeader == "=== Connected Users ===\n"
ListFooter == "=======================\n"

WelcomeMsg(name, id) ==
  "Welcome " \o name \o " (ID:" \o ToString(id)
     \o ")\nCommands: /name <new>, /list, /msg <id> <text>, /quit\n"
JoinMsg(name, id) == "[Server] " \o name \o " (ID:" \o ToString(id) \o ") joined.\n"
LeaveMsg(name, id) ==
  "[Server] " \o name \o " (ID:" \o ToString(id) \o ") disconnected.\n"
RenameMsg(name, id) ==
  "[Server] ID " \o ToString(id) \o " is now known as " \o name \o "\n"
PublicMsg(name, id, text) == name \o " (ID:" \o ToString(id) \o "): " \o text \o "\n"
PrivateMsg(name, id, text) ==
  "[PM from " \o name \o " (ID:" \o ToString(id) \o ")]: " \o text \o "\n"
ListLine(id, name) == "ID:" \o ToString(id) \o "  " \o name \o "\n"

\* --------------------------------------------------------- string helpers
\* snprintf(dst, n, "%s", s): at most n-1 bytes are stored.
Snprintf(s, n) == SubSeq(s, 1, Min(Len(s), n - 1))

Ch(s, k) == IF k >= 1 /\ k <= Len(s) THEN SubSeq(s, k, k) ELSE ""

\* strncmp(buf, p, strlen(p)) == 0
StartsWith(s, p) == Len(s) >= Len(p) /\ SubSeq(s, 1, Len(p)) = p

\* buf + k
Tail_(s, k) == SubSeq(s, k + 1, Len(s))

\* while (n > 0 && (buf[n-1] == '\n' || buf[n-1] == '\r')) buf[--n] = '\0';
RECURSIVE Strip(_)
Strip(s) ==
  IF Len(s) > 0 /\ Ch(s, Len(s)) \in {"\n", "\r"}
    THEN Strip(SubSeq(s, 1, Len(s) - 1))
    ELSE s

DigitVal(c) ==
  CASE c = "0" -> 0 [] c = "1" -> 1 [] c = "2" -> 2 [] c = "3" -> 3 [] c = "4" -> 4
    [] c = "5" -> 5 [] c = "6" -> 6 [] c = "7" -> 7 [] c = "8" -> 8 [] c = "9" -> 9
    [] OTHER -> -1

RECURSIVE AtollDigits(_, _)
AtollDigits(s, acc) ==
  IF Len(s) > 0 /\ DigitVal(Ch(s, 1)) >= 0
    THEN AtollDigits(Tail_(s, 1), acc * 10 + DigitVal(Ch(s, 1)))
    ELSE acc

RECURSIVE SkipSpaces(_)
SkipSpaces(s) ==
  IF Len(s) > 0 /\ Ch(s, 1) \in {" ", "\t", "\n", "\r"} THEN SkipSpaces(Tail_(s, 1)) ELSE s

\* atoll(p): leading white space, an optional sign, then decimal digits; 0 when
\* there is no digit.
Atoll(p) ==
  LET q == SkipSpaces(p) IN
    IF Ch(q, 1) = "-" THEN 0 - AtollDigits(Tail_(q, 1), 0)
    ELSE IF Ch(q, 1) = "+" THEN AtollDigits(Tail_(q, 1), 0)
    ELSE AtollDigits(q, 0)

\* while (*p && *p != ' ') p++;
RECURSIVE SkipWord(_)
SkipWord(p) == IF Len(p) > 0 /\ Ch(p, 1) # " " THEN SkipWord(Tail_(p, 1)) ELSE p

\* the text of /msg: the word is skipped, then exactly one space
MsgText(p) == LET q == SkipWord(p) IN IF Ch(q, 1) = " " THEN Tail_(q, 1) ELSE q

\* ------------------------------------------------------- registry helpers
EmptySlot == [fd |-> 0, alive |-> FALSE, id |-> 0, name |-> "", conn |-> 0]

FindFreeSlotMut(cl, n) ==
  IF \E s \in 0..(n - 1) : ~cl[s].alive
    THEN CHOOSE s \in 0..(n - 1) : ~cl[s].alive /\ \A r \in 0..(s - 1) : cl[r].alive
    ELSE 0

\* find_free_slot: the lowest slot that is not alive, -1 when none
FindFreeSlot(cl, n) ==
  IF \E s \in 0..(n - 1) : ~cl[s].alive
    THEN CHOOSE s \in 0..(n - 1) : ~cl[s].alive /\ \A r \in 0..(s - 1) : cl[r].alive
    ELSE -1

NextIdMut(n) == n

\* next_id++
NextId(n) == n + 1

DefaultName(id) == Snprintf("Client-" \o ToString(id), NAME_LEN)

\* the body of add_client on slot s (conn is the peer behind fd: ghost)
AddClient(cl, s, fd, id, c) ==
  [cl EXCEPT ![s] = [fd |-> fd, alive |-> TRUE, id |-> id,
                     name |-> DefaultName(id), conn |-> c]]

RemoveClientMut(cl, s) == [cl EXCEPT ![s] = [@ EXCEPT !.name = "", !.id = 0]]

\* the body of remove_client on an alive slot: fd is left as it is
RemoveClient(cl, s) ==
  [cl EXCEPT ![s] = [@ EXCEPT !.alive = FALSE, !.name = "", !.id = 0]]

FindByIdMut(cl, n, id) ==
  IF \E s \in 0..(n - 1) : cl[s].id = id
    THEN CHOOSE s \in 0..(n - 1) : cl[s].id = id /\ \A r \in 0..(s - 1) : cl[r].id # id
    ELSE -1

\* find_by_id: the lowest alive slot with that id, -1 (NULL) when none
FindById(cl, n, id) ==
  IF \E s \in 0..(n - 1) : cl[s].alive /\ cl[s].id = id
    THEN CHOOSE s \in 0..(n - 1) :
           /\ cl[s].alive /\ cl[s].id = id
           /\ \A r \in 0..(s - 1) : ~(cl[r].alive /\ cl[r].id = id)
    ELSE -1

BcastTargetMut(cl, i, ex) == cl[i].alive

\* the condition of broadcast_except's loop body
BcastTarget(cl, i, ex) == cl[i].alive /\ cl[i].fd # ex

\* strnlen(newn, NAME_LEN - 1) bytes of newn
RenameTo(newn) == SubSeq(newn, 1, Min(Len(newn), NAME_LEN - 1))

\* One snprintf(out + pos, sizeof(out) - pos, ...) of list_users: the bytes
\* that fit are stored, pos advances by the full length.
ListAppend(st, s) ==
  [out |-> st.out \o SubSeq(s, 1, Min(Len(s), IF OUT_SIZE - st.pos - 1 > 0
                                               THEN OUT_SIZE - st.pos - 1 ELSE 0)),
   pos |-> st.pos + Len(s),
   ids |-> st.ids]

\* the loop condition pos + 64 < sizeof(out)
ListGuard(pos) == pos + LIST_MARGIN < OUT_SIZE

\* the loop body on slot i
ListStep(cl, i, st) ==
  IF cl[i].alive
    THEN [ListAppend(st, ListLine(cl[i].id, cl[i].name))
            EXCEPT !.ids = Append(st.ids, cl[i].id)]
    ELSE st

RECURSIVE ListLoop(_, _, _, _)
ListLoop(cl, n, i, st) ==
  IF i < n /\ ListGuard(st.pos)
    THEN ListLoop(cl, n, i + 1, ListStep(cl, i, st))
    ELSE st

\* list_users: the text sent, and (ghost) the ids of the slots printed
ListUsers(cl, n) ==
  ListAppend(ListLoop(cl, n, 0, ListAppend([out |-> "", pos |-> 0, ids |-> <<>>],
                                           ListHeader)),
             ListFooter)

\* ----------------------------------------------------------------- inputs
LongName == "abcdefghijklmnopqrstuvwxyzABCDEFGHIJ"
\* The lines a peer may send (one recv returns one line, as the wire contract
\* prescribes).
Lines ==
  {"hello\n", "\n", "\r\n", "/quit\n", "/name Bob\n", "/name \n", "/list\n",
   "/msg 1 hi\n", "/msg 2 hi there\n", "/msg x hi\n", "/quitx\n", "/listing\n",
   "/name\n", "/name " \o LongName \o "\n"}

\* ------------------------------------------------------------------ state
VARIABLES
  clients,   \* the registry table: slot -> [fd, alive, id, name] (+ ghost conn)
  next_id,   \* the id counter
  mtx,       \* owner of clients_mtx: a thread number, or NoOwner
  listen,    \* number of close(listen_fd) calls made (0: listening)
  logf,      \* number of fclose(logf) calls made (0: open)
  log_bad,   \* ghost: log_event wrote to, or fclose closed, a closed FILE
  fdtab,     \* descriptor number -> connection behind it (0: not open)
  nconn,     \* connections accepted so far
  peer_eof,  \* connections whose peer has closed its end
  nlines,    \* lines received from peers so far
  mn,        \* main thread: [pc, fd, slot]
  th,        \* handler threads: connection -> locals and position
  sg,        \* sig_handler invocations, oldest first: [thr, pc, i, ...]
  proc,      \* "running", "exited" (exit(0)) or "killed" (SIGPIPE)
  sent,      \* ghost: the send made by the last step
  notices,   \* ghost: connection -> shutdown notices sent to it
  assigned,  \* ghost: the registrations so far, in order: [id, name, slot, conn]
  ls         \* list_users at the program's size: its loop index, out and pos

vars == <<clients, next_id, mtx, listen, logf, log_bad, fdtab, nconn,
          peer_eof, nlines, mn, th, sg, proc, sent, notices, assigned, ls>>

NoSend == [by |-> -1, kind |-> "", fd |-> -1, to |-> 0, msg |-> ""]

NoList == [i |-> -1, out |-> "", pos |-> 0, ids |-> <<>>]

NoThread ==
  [pc |-> "none", slot |-> -1, fd |-> -1, my_id |-> 0, my_name |-> "", buf |-> "",
   ex |-> -1, ret |-> "", kind |-> "", i |-> 0, tid |-> 0, tgt |-> -1,
   got |-> "", cmd |-> "", rc |-> <<>>, live0 |-> {}]

\* memset(clients, 0, ...); next_id = 1; logf = fopen(...); listen_fd = socket(...)
Init ==
  /\ clients = [s \in Slots |-> EmptySlot]
  /\ next_id = 1
  /\ mtx = NoOwner
  /\ listen = 0
  /\ logf = 0
  /\ log_bad = FALSE
  /\ fdtab = [f \in FdNums |-> 0]
  /\ nconn = 0
  /\ peer_eof = {}
  /\ nlines = 0
  /\ mn = [pc |-> "accept", fd |-> -1, slot |-> -1]
  /\ th = [c \in Conns |-> NoThread]
  /\ sg = <<>>
  /\ proc = "running"
  /\ sent = NoSend
  /\ notices = [c \in Conns |-> 0]
  /\ assigned = <<>>
  /\ ls = NoList

\* ------------------------------------------------------------- scheduling
\* A thread runs its own code unless a signal handler is running on it.
Runnable(t) == proc = "running" /\ \A k \in 1..Len(sg) : sg[k].thr # t

\* A handler invocation runs unless a later one is nested on the same thread.
SgRunnable(k) == proc = "running" /\ \A j \in (k + 1)..Len(sg) : sg[j].thr # sg[k].thr

ThreadExists(t) == t = MainThr \/ (t \in Conns /\ th[t].pc \notin {"none", "done"})

\* ------------------------------------------------------------- transport
\* the connection behind descriptor fd (0: fd is not an open connection)
Deliver(fd) == IF fd \in FdNums THEN fdtab[fd] ELSE 0

\* A write to a connection whose peer has closed may raise SIGPIPE, whose
\* default action ends the process (send() is called without MSG_NOSIGNAL).
PipeChoices(c) == IF c \in peer_eof THEN {FALSE, TRUE} ELSE {FALSE}

\* send_str(fd, msg) by thread t
DoSend(t, kind, fd, msg) ==
  /\ sent' = [by |-> t, kind |-> kind, fd |-> fd, to |-> Deliver(fd), msg |-> msg]
  /\ \E pipe \in PipeChoices(Deliver(fd)) : proc' = IF pipe THEN "killed" ELSE proc

Quiet == sent' = NoSend /\ proc' = proc

\* log_event(...): writes to logf, which is never reset after fclose
LogEvent == log_bad' = (log_bad \/ logf > 0)

LowestFreeFd == CHOOSE f \in FdNums : fdtab[f] = 0 /\ \A g \in FdBase..(f - 1) : fdtab[g] # 0

\* ghost: the sessions alive in table cl
LiveSet(cl) ==
  {[slot |-> s, conn |-> cl[s].conn, fd |-> cl[s].fd, id |-> cl[s].id,
    name |-> cl[s].name] : s \in {r \in Slots : cl[r].alive}}

\* ------------------------------------------------------------ accept loop
\* accept(listen_fd, ...) returns a new connection on the lowest free descriptor
Accept(maxc) ==
  /\ Runnable(MainThr) /\ mn.pc = "accept"
  /\ listen = 0
  /\ nconn < maxc
  /\ \E f \in FdNums : fdtab[f] = 0
  /\ fdtab' = [fdtab EXCEPT ![LowestFreeFd] = nconn + 1]
  /\ nconn' = nconn + 1
  /\ mn' = [mn EXCEPT !.pc = "add_lock", !.fd = LowestFreeFd]
  /\ Quiet
  /\ UNCHANGED <<clients, next_id, mtx, listen, logf, log_bad, peer_eof,
                 nlines, th, sg, notices, assigned, ls>>

\* add_client: pthread_mutex_lock
AddLock ==
  /\ Runnable(MainThr) /\ mn.pc = "add_lock"
  /\ mtx = NoOwner
  /\ mtx' = MainThr
  /\ mn' = [mn EXCEPT !.pc = "add_cs"]
  /\ Quiet
  /\ UNCHANGED <<clients, next_id, listen, logf, log_bad, fdtab, nconn, peer_eof, nlines, th, sg, notices, assigned, ls>>

\* add_client: the critical section and the unlock.  Then, in main: with no
\* slot, send_str(client_fd, "Server full.\n"); close(client_fd); continue;
\* otherwise malloc and pthread_create (mallocOk: whether malloc succeeds).
AddCs(mallocOk) ==
  /\ Runnable(MainThr) /\ mn.pc = "add_cs"
  /\ LET slot == FindFreeSlot(clients, MaxClients)
         c == Deliver(mn.fd)
     IN /\ mtx' = NoOwner
        /\ IF slot < 0
             THEN /\ mallocOk
                  /\ UNCHANGED <<clients, next_id, th, assigned>>
                  /\ DoSend(MainThr, "full", mn.fd, ServerFullMsg)
                  /\ fdtab' = [fdtab EXCEPT ![mn.fd] = 0]
                  /\ mn' = [mn EXCEPT !.pc = "accept", !.slot = slot]
             ELSE /\ clients' = AddClient(clients, slot, mn.fd, next_id, c)
                  /\ next_id' = NextId(next_id)
                  /\ assigned' = Append(assigned, [id |-> clients'[slot].id,
                                                    name |-> clients'[slot].name,
                                                    slot |-> slot, conn |-> c])
                  /\ Quiet
                  /\ fdtab' = fdtab
                  /\ IF mallocOk
                       THEN /\ mn' = [mn EXCEPT !.pc = "accept", !.slot = slot]
                            /\ th' = [th EXCEPT ![c] =
                                        [NoThread EXCEPT !.pc = "start", !.slot = slot]]
                       ELSE /\ mn' = [mn EXCEPT !.pc = "mrm_lock", !.slot = slot]
                            /\ th' = th
  /\ UNCHANGED <<listen, logf, log_bad, nconn, peer_eof, nlines, sg, notices, ls>>

\* remove_client(slot) after a failed malloc: pthread_mutex_lock
MrmLock ==
  /\ Runnable(MainThr) /\ mn.pc = "mrm_lock"
  /\ mtx = NoOwner
  /\ mtx' = MainThr
  /\ mn' = [mn EXCEPT !.pc = "mrm_cs"]
  /\ Quiet
  /\ UNCHANGED <<clients, next_id, listen, logf, log_bad, fdtab, nconn, peer_eof, nlines, th, sg, notices, assigned, ls>>

\* the effect of remove_client's critical section on the table and descriptors
RemoveEffect(slot) ==
  IF slot \in Slots /\ clients[slot].alive
    THEN /\ fdtab' = [f \in FdNums |-> IF f = clients[slot].fd THEN 0 ELSE fdtab[f]]
         /\ clients' = RemoveClient(clients, slot)
    ELSE UNCHANGED <<fdtab, clients>>

MrmCs ==
  /\ Runnable(MainThr) /\ mn.pc = "mrm_cs"
  /\ RemoveEffect(mn.slot)
  /\ mtx' = NoOwner
  /\ mn' = [mn EXCEPT !.pc = "accept"]
  /\ Quiet
  /\ UNCHANGED <<next_id, listen, logf, log_bad, nconn, peer_eof, nlines,
                 th, sg, notices, assigned, ls>>

\* --------------------------------------------------------- handler thread
\* Fields of th[c]: pc; the locals slot, fd, my_id, my_name, buf, tid, tgt;
\* the arguments of the broadcast_except call in progress (buf, ex), its loop
\* index i and where the handler goes on after it (ret); ghosts: kind (what
\* buf is), got and cmd (what the last recv returned: "eof" or "line", and the
\* stripped line), rc (the connections the
\* call in progress has sent to), live0 (the sessions alive when it locked).

\* a call broadcast_except(msg, ex), after which the handler goes on at ret
Bcast(r, kind, msg, ex, ret) ==
  [r EXCEPT !.pc = "bc_lock", !.buf = msg, !.ex = ex, !.kind = kind, !.ret = ret]

\* send_str(fd, msg); continue;
Reply(r, kind, msg) == [r EXCEPT !.pc = "reply", !.buf = msg, !.kind = kind]

\* break: the disconnect sequence after the loop
Disconnect(r) == Bcast(r, "leave", LeaveMsg(r.my_name, r.my_id), r.fd, "rm_lock")

\* One pass of the loop body after recv returned line: strip, then dispatch.
Dispatch(r0, line) ==
  LET buf == Strip(line)
      r == [r0 EXCEPT !.cmd = buf]
  IN IF buf = "" THEN Disconnect(r)
     ELSE IF Ch(buf, 1) = "/" THEN
       IF StartsWith(buf, "/quit") THEN Disconnect(r)
       ELSE IF StartsWith(buf, "/name ") THEN
         IF Tail_(buf, 6) = "" THEN Reply(r, "usage", UsageMsg)
         ELSE [r EXCEPT !.pc = "name_lock", !.buf = Tail_(buf, 6)]
       ELSE IF StartsWith(buf, "/list") THEN [r EXCEPT !.pc = "list_lock"]
       ELSE IF StartsWith(buf, "/msg ") THEN
         [r EXCEPT !.pc = "find_lock", !.tid = Atoll(Tail_(buf, 5)),
                   !.buf = MsgText(Tail_(buf, 5))]
       ELSE Reply(r, "unknown", UnknownMsg)
     ELSE Bcast(r, "public", PublicMsg(r.my_name, r.my_id, buf), r.fd, "recv")

\* back at the top of the loop: the command's temporaries are dead
AtRecv(r) ==
  [r EXCEPT !.pc = "recv", !.buf = "", !.ex = -1, !.ret = "", !.kind = "", !.i = 0,
            !.tid = 0, !.tgt = -1, !.got = "", !.cmd = "", !.rc = <<>>, !.live0 = {}]

\* pthread_mutex_lock(&clients_mtx) by handler c, at pc from, going to pc to
HLock(c, from, to) ==
  /\ Runnable(c) /\ th[c].pc = from
  /\ mtx = NoOwner
  /\ mtx' = c
  /\ th' = [th EXCEPT ![c] = [@ EXCEPT !.pc = to, !.i = 0, !.rc = <<>>,
                                       !.live0 = LiveSet(clients)]]
  /\ Quiet
  /\ UNCHANGED <<clients, next_id, listen, logf, log_bad, fdtab, nconn, peer_eof, nlines, mn, sg, notices, assigned, ls>>

HInitLock(c) == HLock(c, "start", "init_cs")

\* fd = clients[slot].fd; my_id = clients[slot].id; snprintf(my_name, ...); unlock
HInitCs(c) ==
  /\ Runnable(c) /\ th[c].pc = "init_cs"
  /\ th' = [th EXCEPT ![c] = [@ EXCEPT !.pc = "welcome",
                                       !.fd = clients[th[c].slot].fd,
                                       !.my_id = clients[th[c].slot].id,
                                       !.my_name = Snprintf(clients[th[c].slot].name, NAME_LEN),
                                       !.live0 = {}]]
  /\ mtx' = NoOwner
  /\ Quiet
  /\ UNCHANGED <<clients, next_id, listen, logf, log_bad, fdtab, nconn, peer_eof, nlines, mn, sg, notices, assigned, ls>>

\* send_str(fd, welcome); then the join announcement is prepared
HWelcome(c) ==
  /\ Runnable(c) /\ th[c].pc = "welcome"
  /\ DoSend(c, "welcome", th[c].fd, WelcomeMsg(th[c].my_name, th[c].my_id))
  /\ th' = [th EXCEPT ![c] = Bcast(@, "join", JoinMsg(@.my_name, @.my_id), @.fd, "recv")]
  /\ UNCHANGED <<clients, next_id, mtx, listen, logf, log_bad, fdtab, nconn, peer_eof, nlines, mn, sg, notices, assigned, ls>>

BcLockMut(c) ==
  /\ Runnable(c) /\ th[c].pc = "bc_lock"
  /\ th' = [th EXCEPT ![c] = [@ EXCEPT !.pc = "bc_loop", !.i = 0, !.rc = <<>>,
                                       !.live0 = LiveSet(clients)]]
  /\ Quiet
  /\ UNCHANGED <<clients, next_id, mtx, listen, logf, log_bad, fdtab, nconn,
                 peer_eof, nlines, mn, sg, notices, assigned, ls>>

\* broadcast_except: pthread_mutex_lock
BcLock(c) == HLock(c, "bc_lock", "bc_loop")

\* one iteration of broadcast_except's loop
BcLoop(c) ==
  /\ Runnable(c) /\ th[c].pc = "bc_loop"
  /\ th[c].i < MaxClients
  /\ IF BcastTarget(clients, th[c].i, th[c].ex)
       THEN /\ DoSend(c, th[c].kind, clients[th[c].i].fd, th[c].buf)
            /\ th' = [th EXCEPT ![c] = [@ EXCEPT !.i = @ + 1,
                        !.rc = Append(@, Deliver(clients[th[c].i].fd))]]
       ELSE /\ Quiet
            /\ th' = [th EXCEPT ![c] = [@ EXCEPT !.i = @ + 1]]
  /\ UNCHANGED <<clients, next_id, mtx, listen, logf, log_bad, fdtab, nconn, peer_eof, nlines, mn, sg, notices, assigned, ls>>

\* the loop is over: unlock, return, and the caller's log_event
BcUnlock(c) ==
  /\ Runnable(c) /\ th[c].pc = "bc_loop"
  /\ th[c].i = MaxClients
  /\ mtx' = NoOwner
  /\ LogEvent
  /\ th' = [th EXCEPT ![c] = IF @.ret = "recv" THEN AtRecv(@)
                             ELSE [AtRecv(@) EXCEPT !.pc = th[c].ret]]
  /\ Quiet
  /\ UNCHANGED <<clients, next_id, listen, logf, fdtab, nconn, peer_eof,
                 nlines, mn, sg, notices, assigned, ls>>

\* recv(fd, ...) returns n <= 0 (the descriptor is closed, or the peer has
\* closed its end, possibly just now), or one line sent by the peer
HRecv(c, maxl) ==
  /\ Runnable(c) /\ th[c].pc = "recv"
  /\ LET d == Deliver(th[c].fd) IN
       \/ /\ th' = [th EXCEPT ![c] = Disconnect([@ EXCEPT !.got = "eof"])]
          /\ peer_eof' = IF d # 0 THEN peer_eof \cup {d} ELSE peer_eof
          /\ nlines' = nlines
       \/ /\ d # 0 /\ d \notin peer_eof
          /\ nlines < maxl
          /\ \E line \in Lines : th' = [th EXCEPT ![c] = Dispatch([@ EXCEPT !.got = "line"], line)]
          /\ peer_eof' = peer_eof
          /\ nlines' = nlines + 1
  /\ Quiet
  /\ UNCHANGED <<clients, next_id, mtx, listen, logf, log_bad, fdtab, nconn,
                 mn, sg, notices, assigned, ls>>

\* send_str(fd, <reply>); continue;  (after "[PM sent]" also the log_event)
HReply(c) ==
  /\ Runnable(c) /\ th[c].pc = "reply"
  /\ DoSend(c, th[c].kind, th[c].fd, th[c].buf)
  /\ IF th[c].kind = "ack" THEN LogEvent ELSE log_bad' = log_bad
  /\ th' = [th EXCEPT ![c] = AtRecv(@)]
  /\ UNCHANGED <<clients, next_id, mtx, listen, logf, fdtab, nconn, peer_eof, nlines, mn, sg, notices, assigned, ls>>

HNameLock(c) == HLock(c, "name_lock", "name_cs")

\* memcpy(clients[slot].name, newn, nl); ...; memcpy(my_name, ...); unlock;
\* then the rename notice is prepared
HNameCs(c) ==
  /\ Runnable(c) /\ th[c].pc = "name_cs"
  /\ clients' = [clients EXCEPT ![th[c].slot].name = RenameTo(th[c].buf)]
  /\ th' = [th EXCEPT ![c] =
              Bcast([@ EXCEPT !.my_name = RenameTo(th[c].buf), !.live0 = {}],
                    "rename", RenameMsg(RenameTo(th[c].buf), @.my_id), -1, "recv")]
  /\ mtx' = NoOwner
  /\ Quiet
  /\ UNCHANGED <<next_id, listen, logf, log_bad, fdtab, nconn, peer_eof,
                 nlines, mn, sg, notices, assigned, ls>>

HListLock(c) == HLock(c, "list_lock", "list_cs")

\* list_users: the loop under the lock, the unlock; send_all follows
HListCs(c) ==
  /\ Runnable(c) /\ th[c].pc = "list_cs"
  /\ th' = [th EXCEPT ![c] = Reply(@, "list", ListUsers(clients, MaxClients).out)]
  /\ mtx' = NoOwner
  /\ Quiet
  /\ UNCHANGED <<clients, next_id, listen, logf, log_bad, fdtab, nconn, peer_eof, nlines, mn, sg, notices, assigned, ls>>

HFindLock(c) == HLock(c, "find_lock", "find_cs")

\* find_by_id(tid): the scan, the unlock; tgt is the slot found (-1: NULL)
HFindCs(c) ==
  /\ Runnable(c) /\ th[c].pc = "find_cs"
  /\ LET tgt == FindById(clients, MaxClients, th[c].tid) IN
       th' = [th EXCEPT ![c] =
                IF tgt >= 0
                  THEN [@ EXCEPT !.pc = "pm_send", !.tgt = tgt, !.kind = "pm",
                                 !.buf = PrivateMsg(th[c].my_name, th[c].my_id, th[c].buf)]
                  ELSE Reply(@, "notfound", NotFoundMsg)]
  /\ mtx' = NoOwner
  /\ Quiet
  /\ UNCHANGED <<clients, next_id, listen, logf, log_bad, fdtab, nconn, peer_eof, nlines, mn, sg, notices, assigned, ls>>

\* send_str(tgt->fd, pm): tgt->fd is read here, without the lock
HPmSend(c) ==
  /\ Runnable(c) /\ th[c].pc = "pm_send"
  /\ DoSend(c, "pm", clients[th[c].tgt].fd, th[c].buf)
  /\ th' = [th EXCEPT ![c] = Reply(@, "ack", PmSentMsg)]
  /\ UNCHANGED <<clients, next_id, mtx, listen, logf, log_bad, fdtab, nconn, peer_eof, nlines, mn, sg, notices, assigned, ls>>

HRmLock(c) == HLock(c, "rm_lock", "rm_cs")

\* remove_client(slot): the critical section and the unlock; return NULL
HRmCs(c) ==
  /\ Runnable(c) /\ th[c].pc = "rm_cs"
  /\ RemoveEffect(th[c].slot)
  /\ mtx' = NoOwner
  /\ th' = [th EXCEPT ![c] = [AtRecv(@) EXCEPT !.pc = "done"]]
  /\ Quiet
  /\ UNCHANGED <<next_id, listen, logf, log_bad, nconn, peer_eof, nlines,
                 mn, sg, notices, assigned, ls>>

\* ------------------------------------------------- sig_handler / shutdown
\* A termination signal is delivered to thread t, which starts sig_handler:
\* shutdown_server's first statement, close(listen_fd), is part of this step.
Signal(t) ==
  /\ proc = "running"
  /\ Len(sg) < MaxSignals
  /\ ThreadExists(t)
  /\ Cardinality({k \in 1..Len(sg) : sg[k].thr = t}) < NumSigNos
  /\ sg' = Append(sg, [thr |-> t, pc |-> "sd_lock", i |-> 0, live0 |-> {}])
  /\ listen' = listen + 1
  /\ Quiet
  /\ UNCHANGED <<clients, next_id, mtx, logf, log_bad, fdtab, nconn, peer_eof, nlines, mn, th, notices, assigned, ls>>

\* pthread_mutex_lock in shutdown_server: the mutex is not recursive, so the
\* invocation waits for ever when its own thread holds it
SdLock(k) ==
  /\ SgRunnable(k) /\ sg[k].pc = "sd_lock"
  /\ mtx = NoOwner
  /\ mtx' = sg[k].thr
  /\ sg' = [sg EXCEPT ![k] = [@ EXCEPT !.pc = "sd_loop", !.i = 0,
                                       !.live0 = LiveSet(clients)]]
  /\ Quiet
  /\ UNCHANGED <<clients, next_id, listen, logf, log_bad, fdtab, nconn, peer_eof, nlines, mn, th, notices, assigned, ls>>

\* the body of shutdown_server's loop on an alive slot: alive = 0 only
ShutdownSlot(cl, i) == [cl EXCEPT ![i].alive = FALSE]

\* one iteration of shutdown_server's loop
SdLoop(k) ==
  /\ SgRunnable(k) /\ sg[k].pc = "sd_loop"
  /\ sg[k].i < MaxClients
  /\ IF clients[sg[k].i].alive
       THEN /\ DoSend(sg[k].thr, "shutdown", clients[sg[k].i].fd, ShutdownMsg)
            /\ notices' = [c \in Conns |->
                 IF c = Deliver(clients[sg[k].i].fd) THEN notices[c] + 1 ELSE notices[c]]
            /\ fdtab' = [f \in FdNums |-> IF f = clients[sg[k].i].fd THEN 0 ELSE fdtab[f]]
            /\ clients' = ShutdownSlot(clients, sg[k].i)
       ELSE /\ Quiet
            /\ UNCHANGED <<notices, fdtab, clients>>
  /\ sg' = [sg EXCEPT ![k] = [@ EXCEPT !.i = @ + 1]]
  /\ UNCHANGED <<next_id, mtx, listen, logf, log_bad, nconn, peer_eof,
                 nlines, mn, th, assigned, ls>>

SdUnlock(k) ==
  /\ SgRunnable(k) /\ sg[k].pc = "sd_loop"
  /\ sg[k].i = MaxClients
  /\ mtx' = NoOwner
  /\ sg' = [sg EXCEPT ![k] = [@ EXCEPT !.pc = "sd_log"]]
  /\ Quiet
  /\ UNCHANGED <<clients, next_id, listen, logf, log_bad, fdtab, nconn, peer_eof, nlines, mn, th, notices, assigned, ls>>

\* if (logf) { log_event("SERVER SHUTDOWN"); fclose(logf); }  (logf stays set)
SdLog(k) ==
  /\ SgRunnable(k) /\ sg[k].pc = "sd_log"
  /\ LogEvent
  /\ logf' = logf + 1
  /\ sg' = [sg EXCEPT ![k] = [@ EXCEPT !.pc = "exit"]]
  /\ Quiet
  /\ UNCHANGED <<clients, next_id, mtx, listen, fdtab, nconn, peer_eof,
                 nlines, mn, th, notices, assigned, ls>>

\* exit(0)
SdExit(k) ==
  /\ SgRunnable(k) /\ sg[k].pc = "exit"
  /\ proc' = "exited"
  /\ sent' = NoSend
  /\ UNCHANGED <<clients, next_id, mtx, listen, logf, log_bad, fdtab, nconn,
                 peer_eof, nlines, mn, th, sg, notices, assigned, ls>>

\* ---------------------------------------------------------- specification
MainStep(maxc) ==
  \/ Accept(maxc)
  \/ AddLock
  \/ \E ok \in BOOLEAN : AddCs(ok)
  \/ MrmLock
  \/ MrmCs

HandlerStep(c, maxl) ==
  \/ HInitLock(c)
  \/ HInitCs(c)
  \/ HWelcome(c)
  \/ BcLock(c)
  \/ BcLoop(c)
  \/ BcUnlock(c)
  \/ HRecv(c, maxl)
  \/ HReply(c)
  \/ HNameLock(c)
  \/ HNameCs(c)
  \/ HListLock(c)
  \/ HListCs(c)
  \/ HFindLock(c)
  \/ HFindCs(c)
  \/ HPmSend(c)
  \/ HRmLock(c)
  \/ HRmCs(c)

SigStep(k) ==
  \/ SdLock(k)
  \/ SdLoop(k)
  \/ SdUnlock(k)
  \/ SdLog(k)
  \/ SdExit(k)

\* Normal operation: the accept loop and the handlers.
Next ==
  \/ MainStep(MaxConns)
  \/ \E c \in Conns : HandlerStep(c, MaxLines)

Spec == Init /\ [][Next]_vars

\* Operation during which termination signals arrive.
SigNext ==
  \/ MainStep(SigConns)
  \/ \E c \in Conns : HandlerStep(c, SigLines)
  \/ \E t \in {MainThr} \cup Conns : Signal(t)
  \/ \E k \in 1..MaxSignals : k <= Len(sg) /\ SigStep(k)

SigSpec == Init /\ [][SigNext]_vars

\* One termination signal while a third connection is being accepted: the
\* signal is handled on one thread while the others keep running.
RaceNext ==
  \/ MainStep(RaceConns)
  \/ \E c \in Conns : HandlerStep(c, SigLines)
  \/ \E t \in {MainThr} \cup Conns : Len(sg) < RaceSignals /\ Signal(t)
  \/ \E k \in 1..RaceSignals : k <= Len(sg) /\ SigStep(k)

RaceSpec == Init /\ [][RaceNext]_vars

\* ------------------------------------------------- list_users on its own
\* The registry at the program's size: connections register one after the
\* other and each renames itself to the same name ("" for no rename).
ListNames == {"", "Bob", LongName}
\* the numbers of live sessions at which /list is issued
ListSizes == {1, 2, 3, 64, 100, 127, 128}

ListInit ==
  /\ clients = [s \in 0..(MAX_CLIENTS - 1) |-> EmptySlot]
  /\ next_id = 1
  /\ mtx = NoOwner
  /\ listen = 0
  /\ logf = 0
  /\ log_bad = FALSE
  /\ fdtab = [f \in FdNums |-> 0]
  /\ nconn = 0
  /\ peer_eof = {}
  /\ nlines = 0
  /\ mn = [pc |-> "accept", fd |-> -1, slot |-> -1]
  /\ th = [c \in Conns |-> NoThread]
  /\ sg = <<>>
  /\ proc = "running"
  /\ sent = NoSend
  /\ notices = [c \in Conns |-> 0]
  /\ assigned = <<>>
  /\ ls = NoList

NameAfter(nm, id) == IF nm = "" THEN DefaultName(id) ELSE RenameTo(nm)

\* add_client for one more connection, then that session's /name nm
ListJoin(nm) ==
  /\ ls.i = -1
  /\ FindFreeSlot(clients, MAX_CLIENTS) >= 0
  /\ \A s \in 0..(MAX_CLIENTS - 1) :
       clients[s].alive => clients[s].name = NameAfter(nm, clients[s].id)
  /\ LET slot == FindFreeSlot(clients, MAX_CLIENTS) IN
       clients' = [AddClient(clients, slot, FdBase + slot, next_id, next_id)
                     EXCEPT ![slot].name = NameAfter(nm, next_id)]
  /\ next_id' = NextId(next_id)
  /\ sent' = NoSend
  /\ UNCHANGED <<mtx, listen, logf, log_bad, fdtab, nconn, peer_eof, nlines, mn,
                 th, sg, proc, notices, assigned, ls>>

\* list_users(fd) called by the session in slot 0: the header, and the lock
ListBegin ==
  /\ ls.i = -1
  /\ clients[0].alive
  /\ Cardinality({s \in 0..(MAX_CLIENTS - 1) : clients[s].alive}) \in ListSizes
  /\ ls' = [i |-> 0] @@ ListAppend([out |-> "", pos |-> 0, ids |-> <<>>], ListHeader)
  /\ sent' = NoSend
  /\ UNCHANGED <<clients, next_id, mtx, listen, logf, log_bad, fdtab, nconn,
                 peer_eof, nlines, mn, th, sg, proc, notices, assigned>>

\* one iteration of list_users' loop
ListIter ==
  /\ ls.i >= 0 /\ ls.i < MAX_CLIENTS /\ ListGuard(ls.pos)
  /\ ls' = [i |-> ls.i + 1] @@ ListStep(clients, ls.i, ls)
  /\ UNCHANGED <<clients, next_id, mtx, listen, logf, log_bad, fdtab, nconn,
                 peer_eof, nlines, mn, th, sg, proc, sent, notices, assigned>>

\* the loop is over: the unlock, the footer, send_all(fd, out, strlen(out))
ListEnd ==
  /\ ls.i >= 0 /\ ~(ls.i < MAX_CLIENTS /\ ListGuard(ls.pos))
  /\ sent' = [by |-> clients[0].conn, kind |-> "list", fd |-> clients[0].fd,
              to |-> clients[0].conn, msg |-> ListAppend(ls, ListFooter).out]
  /\ ls' = NoList
  /\ UNCHANGED <<clients, next_id, mtx, listen, logf, log_bad, fdtab, nconn,
                 peer_eof, nlines, mn, th, sg, proc, notices, assigned>>

ListNext ==
  \/ \E nm \in ListNames : ListJoin(nm)
  \/ ListBegin
  \/ ListIter
  \/ ListEnd

ListSpec == ListInit /\ [][ListNext]_vars

\* ================================================================ claims

\* C1: every successful registration gets an id strictly greater than every
\* id assigned before it (so no id is assigned twice), no two live sessions
\* have the same id, the first id is 1 and the name given at registration is
\* Client-<id>.
C1_IdsStrictlyIncreasing ==
  /\ \A k \in 1..Len(assigned) :
       /\ \A j \in 1..(k - 1) : assigned[j].id < assigned[k].id
       /\ assigned[k].name = "Client-" \o ToString(assigned[k].id)
  /\ (Len(assigned) > 0 => assigned[1].id = 1)
  /\ \A s, r \in Slots :
       (clients[s].alive /\ clients[r].alive /\ s # r) => clients[s].id # clients[r].id
  /\ \A s \in Slots :
       clients[s].alive => \E k \in 1..Len(assigned) :
                             assigned[k].id = clients[s].id /\ assigned[k].slot = s

\* a freed slot has been reused while another session is alive
C1_Witness ==
  /\ Len(assigned) = 3
  /\ assigned[3].slot = assigned[1].slot
  /\ \A s \in Slots : clients[s].alive

SeqSet(q) == {q[k] : k \in 1..Len(q)}

\* C2: when a call broadcast_except(msg, except) has finished its loop, msg
\* has been sent exactly once to every session that was alive when the call
\* took the lock and whose handle differs from except, and to nobody else (not
\* to the session owning except); with except = -1 that is every live session.
\* Every send of the call carries msg.  A public message typed by session S
\* goes to every other live session and never to S.
C2_BroadcastRecipients ==
  \A c \in Conns :
    /\ (th[c].pc = "bc_loop" /\ sent.by = c /\ sent # NoSend) =>
         /\ sent.msg = th[c].buf
         /\ Len(th[c].rc) > 0 /\ sent.to = th[c].rc[Len(th[c].rc)]
    /\ (th[c].pc = "bc_loop" /\ th[c].i = MaxClients) =>
         LET want == {r.conn : r \in {x \in th[c].live0 : x.fd # th[c].ex}} IN
           /\ SeqSet(th[c].rc) = want
           /\ Len(th[c].rc) = Cardinality(want)
           /\ \A r \in th[c].live0 : r.fd = th[c].ex => r.conn \notin SeqSet(th[c].rc)
           /\ th[c].ex = -1 => SeqSet(th[c].rc) = {r.conn : r \in th[c].live0}
           /\ th[c].kind = "public" =>
                /\ c \notin SeqSet(th[c].rc)
                /\ \A r \in th[c].live0 : r.conn # c => r.conn \in SeqSet(th[c].rc)

\* a public message of a live session has been sent to another live session
C2_Witness ==
  \E c \in Conns :
    /\ th[c].pc = "bc_loop" /\ th[c].i = MaxClients /\ th[c].kind = "public"
    /\ \E r \in th[c].live0 : r.conn = c
    /\ Len(th[c].rc) >= 1

\* C3: the private-message line of /msg X is delivered only to the session
\* that had id X at the lookup: when that session has gone by the time of the
\* send, the send reaches nobody, and never another session registered since
\* in the same slot or on the same handle.
C3_PmOnlyToTarget ==
  sent.kind = "pm" =>
    \E r \in th[sent.by].live0 :
      /\ r.id = th[sent.by].tid
      /\ sent.to \in {0, r.conn}

\* C4: a /msg whose id matches no live session at the lookup (a non-numeric id
\* parses as 0, and no live session has id 0) gives the sender the one reply
\* "User not found.", sends nothing to anybody else, leaves the registry
\* unchanged and the sender Active.
C4_NotFound ==
  /\ [](\A s \in Slots : clients[s].alive => clients[s].id >= 1)
  /\ [](\A c \in Conns :
          (th[c].pc \in {"find_lock", "find_cs"} /\ th[c].cmd = "/msg x hi") => th[c].tid = 0)
  /\ [](sent.kind = "notfound" =>
          /\ sent.msg = NotFoundMsg
          /\ sent.fd = th[sent.by].fd /\ sent.to = sent.by
          /\ th[sent.by].pc = "recv")
  /\ [][\A c \in Conns :
          /\ (/\ th[c].pc = "find_cs" /\ th'[c].pc # "find_cs"
              /\ ~\E s \in Slots : clients[s].alive /\ clients[s].id = th[c].tid)
             => /\ th'[c].pc = "reply" /\ th'[c].buf = NotFoundMsg
                /\ th'[c].kind = "notfound"
                /\ sent' = NoSend /\ clients' = clients
          /\ (th[c].pc = "reply" /\ th[c].kind = "notfound" /\ th'[c].pc # "reply")
             => /\ sent'.by = c /\ sent'.kind = "notfound"
                /\ th'[c].pc = "recv" /\ clients' = clients
          /\ (th[c].pc = "find_cs" /\ th'[c].pc = "reply" /\ th'[c].kind = "notfound") =>
                ~\E s \in Slots : clients[s].alive /\ clients[s].id = th[c].tid]_vars

\* a non-numeric id has been looked up and the reply is due
C4_Witness ==
  \E c \in Conns :
    /\ th[c].pc = "reply" /\ th[c].kind = "notfound"
    /\ th[c].cmd = "/msg x hi" /\ th[c].tid = 0
    /\ \E s \in Slots : clients[s].alive /\ clients[s].conn # c

\* the lines of the sessions alive in slots lo..hi of cl, in slot order
RECURSIVE ExpectedLines(_, _, _)
ExpectedLines(cl, lo, hi) ==
  IF lo > hi THEN ""
  ELSE IF lo = hi THEN (IF cl[lo].alive THEN ListLine(cl[lo].id, cl[lo].name) ELSE "")
  ELSE ExpectedLines(cl, lo, (lo + hi) \div 2)
         \o ExpectedLines(cl, (lo + hi) \div 2 + 1, hi)

\* C5: the reply to /list is the header, one line "ID:<id>  <name>" for each
\* session alive at the listing (none missing, none twice, no dead one), then
\* the footer.
C5_ListExact ==
  sent.kind = "list" =>
    sent.msg = ListHeader \o ExpectedLines(clients, 0, MAX_CLIENTS - 1) \o ListFooter

\* C6: when shutdown_server has returned, every session that was alive when
\* it took the lock has been sent the shutdown notice exactly once and has its
\* handle closed, and no slot is alive.
C6_ShutdownLeavesNoneAlive ==
  \A k \in 1..Len(sg) :
    sg[k].pc = "exit" =>
      /\ \A r \in sg[k].live0 :
           /\ notices[r.conn] = 1
           /\ \A f \in FdNums : fdtab[f] # r.conn
      /\ \A s \in Slots : ~clients[s].alive

\* C7: shutdown can always get the registry lock: its signal handler never
\* waits for the lock while the lock is held by the thread the handler has
\* interrupted (a wait that never ends, so the process never terminates).
C7_ShutdownGetsLock ==
  \A k \in 1..Len(sg) : sg[k].pc = "sd_lock" => mtx # sg[k].thr

\* C8: however often shutdown_server is entered, the listening socket is
\* closed at most once, each session gets the notice at most once, and the
\* audit log is closed at most once and never written or closed after that.
C8_ShutdownIdempotent ==
  /\ listen <= 1
  /\ logf <= 1
  /\ ~log_bad
  /\ \A c \in Conns : notices[c] <= 1

\* C9: a registration attempted while every slot is alive changes no slot and
\* not the id counter, sends "Server full." to the new connection and closes
\* it, starts no handler and sends nothing to any live session.
C9_RegistryFull ==
  [][(/\ mn.pc = "add_cs" /\ mn'.pc # "add_cs"
      /\ \A s \in Slots : clients[s].alive)
     => /\ clients' = clients /\ next_id' = next_id /\ assigned' = assigned
        /\ th' = th
        /\ sent' = [by |-> MainThr, kind |-> "full", fd |-> mn.fd,
                    to |-> Deliver(mn.fd), msg |-> ServerFullMsg]
        /\ \A s \in Slots : clients[s].conn # sent'.to
        /\ fdtab' = [fdtab EXCEPT ![mn.fd] = 0]
        /\ mn'.pc = "accept"]_vars

\* a connection has been told "Server full." while every slot is alive
C9_Witness ==
  /\ sent.kind = "full" /\ sent.to = 3
  /\ \A s \in Slots : clients[s].alive
  /\ next_id = 3

\* C10: a session whose read returned a line that is empty after stripping
\* stays Active: it does not enter the disconnect sequence.
C10_EmptyLineKeepsActive ==
  \A c \in Conns :
    (th[c].got = "line" /\ th[c].cmd = "") => th[c].kind # "leave"

\* C11: a /name N by session S stores N cut to at most 31 bytes as the name of
\* S (in the registry and in S's handler, which are what /list and S's later
\* messages read), leaves S's id alone, and changes the name and id of no
\* other session.
C11_RenameOnlyOwnName ==
  [][\A c \in Conns :
       (th[c].pc = "name_cs" /\ th'[c].pc # "name_cs") =>
         /\ Len(th'[c].my_name) <= NAME_LEN - 1
         /\ th'[c].my_name = SubSeq(Tail_(th[c].cmd, 6), 1, Len(th'[c].my_name))
         /\ (Len(Tail_(th[c].cmd, 6)) <= NAME_LEN - 1 => th'[c].my_name = Tail_(th[c].cmd, 6))
         /\ \A s \in Slots :
              clients[s].alive =>
                IF clients[s].id = th[c].my_id
                  THEN /\ clients'[s].name = th'[c].my_name
                       /\ clients'[s].id = clients[s].id
                  ELSE clients'[s] = clients[s]]_vars

\* ghost: the connection that was registered with id (0: none)
ConnOf(id) ==
  IF \E k \in 1..Len(assigned) : assigned[k].id = id
    THEN assigned[CHOOSE k \in 1..Len(assigned) : assigned[k].id = id].conn
    ELSE 0

\* the handler has left Active: it is in, or past, the disconnect sequence
LeftActive(r) == r.kind = "leave" \/ r.pc \in {"rm_lock", "rm_cs", "done"}

\* C12: the disconnect sequence of a session runs once and in order: the
\* announcement goes to every session alive at the broadcast other than the
\* departing one and never to the departing one; only then does remove_client
\* run, after which the session is not registered and its handle is closed;
\* the handler then takes no further step (it never reads or sends again) and
\* the departed connection is sent nothing more.
C12_DisconnectSequence ==
  /\ [](\A c \in Conns :
          (th[c].pc = "bc_loop" /\ th[c].kind = "leave" /\ th[c].i = MaxClients) =>
            /\ SeqSet(th[c].rc) = {r.conn : r \in {x \in th[c].live0 : x.id # th[c].my_id}}
            /\ Len(th[c].rc) = Cardinality(SeqSet(th[c].rc)))
  /\ [](\A c \in Conns :
          (th[c].pc = "done" /\ th[c].my_id # 0) =>
            /\ \A s \in Slots : clients[s].alive => clients[s].id # th[c].my_id
            /\ \A f \in FdNums : fdtab[f] # ConnOf(th[c].my_id)
            /\ sent.by # c /\ sent.to # ConnOf(th[c].my_id))
  /\ [](\A c, d \in Conns :
          (c # d /\ LeftActive(th[c]) /\ LeftActive(th[d]) /\ th[c].my_id # 0)
            => th[c].my_id # th[d].my_id)
  /\ [][\A c \in Conns :
          /\ (th[c].pc # "rm_lock" /\ th'[c].pc = "rm_lock") =>
                th[c].pc = "bc_loop" /\ th[c].kind = "leave" /\ th[c].i = MaxClients
          /\ (th[c].kind # "leave" /\ th'[c].kind = "leave") =>
                th[c].pc = "recv" /\ th'[c].pc = "bc_lock" /\ th'[c].ex = th[c].fd
          /\ (th[c].kind = "leave" /\ th'[c].kind # "leave") => th'[c].pc = "rm_lock"
          /\ (th[c].pc \in {"rm_lock", "rm_cs"}) => th'[c].pc \in {"rm_lock", "rm_cs", "done"}
          /\ th[c].pc = "done" => th'[c] = th[c]]_vars

\* C13: a failed read or write on one session's connection never ends the
\* server process: no write to a connection whose peer has closed kills it.
C13_TransportFailureContained == proc # "killed"

\* a stripped line that is one of the four commands, with or without arguments
IsCommandLine(b) ==
  b = "/quit" \/ b = "/list" \/ StartsWith(b, "/name ") \/ StartsWith(b, "/msg ")

\* C14: after a read returned a line that starts with '/' and is none of the
\* four commands (/quitx, /listing, /name without a space), the handler's next
\* step is the reply "Unknown command." to the sender: it neither leaves
\* Active nor runs another command.
C14_UnknownCommand ==
  \A c \in Conns :
    (th[c].got = "line" /\ Ch(th[c].cmd, 1) = "/" /\ ~IsCommandLine(th[c].cmd)) =>
      th[c].pc = "reply" /\ th[c].kind = "unknown" /\ th[c].buf = UnknownMsg

\* C15: every slot that is not alive has an empty name and id 0.
C15_DeadSlotsAreReset ==
  \A s \in Slots : ~clients[s].alive => clients[s].name = "" /\ clients[s].id = 0

\* the positions at which a handler's next statement reads or writes a slot
HandlerAccessPcs == {"init_cs", "bc_loop", "name_cs", "list_cs", "find_cs", "pm_send", "rm_cs"}

\* C16: a thread whose next statement reads or writes a registry slot or the
\* id counter holds the registry lock (handlers, the accept loop and shutdown
\* alike); in particular the slot found by find_by_id is not used after the
\* lock has been released.
C16_AccessUnderLock ==
  /\ \A c \in Conns : th[c].pc \in HandlerAccessPcs => mtx = c
  /\ mn.pc \in {"add_cs", "mrm_cs"} => mtx = MainThr
  /\ \A k \in 1..Len(sg) : sg[k].pc = "sd_loop" => mtx = sg[k].thr

\* the sends that are part of a broadcast or of shutdown's loop
BroadcastKinds == {"join", "leave", "rename", "public", "shutdown"}

\* C17: a call of broadcast_except holds the registry lock from before its
\* first send until after its last: while it is in its loop no other
\* broadcast and no shutdown loop is running, no step changes the registry
\* or the id counter, every broadcast send made is one of this call, and at
\* the end its recipients are exactly the sessions alive then (other than
\* except).  Broadcasts are therefore serialized, so all their recipients see
\* them in one order.
C17_BroadcastAtomic ==
  /\ [](\A c \in Conns : th[c].pc = "bc_loop" =>
          /\ mtx = c
          /\ \A d \in Conns \ {c} : th[d].pc # "bc_loop"
          /\ \A k \in 1..Len(sg) : sg[k].pc # "sd_loop"
          /\ th[c].i = MaxClients =>
               /\ SeqSet(th[c].rc) =
                    {clients[s].conn : s \in {r \in Slots : BcastTarget(clients, r, th[c].ex)}}
               /\ LiveSet(clients) = th[c].live0)
  /\ [][\A c \in Conns : th[c].pc = "bc_loop" =>
          /\ clients' = clients /\ next_id' = next_id
          /\ (sent' # NoSend /\ sent'.kind \in BroadcastKinds) =>
               sent'.by = c /\ sent'.msg = th[c].buf /\ sent'.kind = th[c].kind]_vars

\* a rename notice is half sent while another handler waits to broadcast
C17_Witness ==
  \E c \in Conns :
    /\ th[c].pc = "bc_loop" /\ th[c].kind = "rename"
    /\ th[c].i = 1 /\ Len(th[c].rc) = 1
    /\ Cardinality(th[c].live0) = 2
    /\ \E d \in Conns \ {c} : th[d].pc = "bc_lock"

\* C18: the handles of the live sessions are open, each is the connection
\* that was registered with it, and no two live sessions have the same handle;
\* a step that closes the handle of a live session is made by the holder of
\* the registry lock and marks that session dead in the same step, so a handle
\* number handed out again is never that of a live session.
C18_LiveHandlesDistinctAndOpen ==
  /\ [](\A s \in Slots : clients[s].alive =>
          /\ clients[s].fd \in FdNums
          /\ fdtab[clients[s].fd] # 0
          /\ fdtab[clients[s].fd] = clients[s].conn
          /\ \A r \in Slots \ {s} : clients[r].alive => clients[r].fd # clients[s].fd)
  /\ [][\A f \in FdNums :
          /\ (fdtab[f] # 0 /\ fdtab'[f] = 0) =>
               \A s \in Slots : (clients[s].alive /\ clients[s].fd = f) =>
                 /\ ~clients'[s].alive
                 /\ mtx # NoOwner
          /\ (fdtab[f] = 0 /\ fdtab'[f] # 0) =>
               \A s \in Slots : clients[s].alive => clients[s].fd # f]_vars

\* a closed handle number has been handed out again and registered
C18_Witness ==
  \E s \in Slots :
    /\ clients[s].alive /\ clients[s].fd = FdBase /\ clients[s].conn = 2
    /\ \E r \in Slots \ {s} : ~clients[r].alive

\* the lines that come from other sessions' activity
PeerKinds == {"join", "leave", "rename", "public", "pm"}

\* C19: a registered session is sent no join or leave announcement, rename
\* notice, public or private message before its own welcome line has been
\* sent.
C19_WelcomeFirst ==
  (sent.kind \in PeerKinds /\ sent.to # 0) =>
    th[sent.to].pc \notin {"none", "start", "init_cs", "welcome"}

\* C20: when a handler's rename or its remove_client(slot) changes a live
\* slot or closes a handle, that slot holds the session whose id the handler
\* read when it started; on a slot that is not alive remove_client closes
\* nothing and changes nothing.
C20_HandlerTouchesOwnSessionOnly ==
  [][\A c \in Conns :
       (th[c].pc \in {"rm_cs", "name_cs"} /\ th'[c].pc # th[c].pc) =>
         /\ \A s \in Slots :
              (clients[s].alive /\ clients'[s] # clients[s]) =>
                s = th[c].slot /\ clients[s].id = th[c].my_id
         /\ \A f \in FdNums :
              fdtab'[f] # fdtab[f] =>
                \E s \in Slots : /\ clients[s].alive /\ clients[s].fd = f
                                  /\ clients[s].id = th[c].my_id
         /\ (th[c].pc = "rm_cs" /\ ~clients[th[c].slot].alive) =>
              clients' = clients /\ fdtab' = fdtab]_vars
====
